---- MODULE Spec2Model ----
(***************************************************************************)
(* zlogger split output (src/split_output.go): a SplitOutput owns three    *)
(* day-stamped files (info, warn, error) behind one mutex; NewSplitOutput  *)
(* opens them and starts the rotateDaily goroutine, which reopens them at  *)
(* each computed midnight; Write routes a payload by level; Close closes   *)
(* the three files.                                                        *)
(*                                                                         *)
(* Time is a discrete wall clock.  A span of 24 hours is DayUnits clock    *)
(* units; the second calendar day (index 1) may be one unit shorter or     *)
(* longer (a daylight-saving shift), chosen by cal.  Code takes a small    *)
(* but nonzero time: while the constructor or the rotation goroutine is    *)
(* running a burst of statements the clock may advance by at most one unit *)
(* (skew), so a burst may straddle one unit boundary but never lasts a     *)
(* whole unit.                                                             *)
(*                                                                         *)
(* Besides the calls of Write and Close that run next to the rotation      *)
(* (Spec, SpecStd, SpecNoDir, SpecPrior, SpecRecover, SpecFair), two       *)
(* clients are shown on their                                              *)
(* own: goroutines writing concurrently, with the handle's Write shown     *)
(* byte by byte (SpecWriters), and one goroutine logging through the core  *)
(* of GetSplitCore or calling Write itself, with the byte count and the    *)
(* error each Write returns (SpecCore).                                    *)
(***************************************************************************)
EXTENDS Integers, Sequences, FiniteSets, TLC

\* ------------------------------------------------------------------ bounds
NumCallers == 2
MaxDays == 1
DayUnits == 2
LevelMargin == 1
WritesEach == 2
PayloadLen == 2

\* ------------------------------------------------- zapcore level constants
DebugLevel == -1
InfoLevel == 0
WarnLevel == 1
ErrorLevel == 2
DPanicLevel == 3
PanicLevel == 4
FatalLevel == 5

\* Values of zapcore.Level (an int8) that are enumerated: every named level
\* and LevelMargin values on each side of them.
Levels == (DebugLevel - LevelMargin) .. (FatalLevel + LevelMargin)

\* Calls of Write and Close invoked in one run (at most NumCallers of them in
\* progress at a time); passes of the rotation loop.
MaxCalls == NumCallers
MaxRotations == MaxDays + 1
Streams == {"info", "warn", "error"}
Nil == 0
Writers == 1 .. NumCallers

VARIABLES
  clock,      \* wall-clock instant, in units
  cal,        \* "std" | "short" | "long": length of calendar day 1
  skew,       \* units the clock advanced during the running burst (0 or 1)
  dirExists,  \* the log directory exists
  files,      \* file name <<stream, date>> -> sequence of payloads
  handles,    \* the *os.File objects: handle id -> [stream, date, open]
  infoOut,    \* SplitOutput.infoOut: Nil or a handle id
  warnOut,    \* SplitOutput.warnOut
  errorOut,   \* SplitOutput.errorOut
  mutex,      \* SplitOutput.mutex: TRUE while locked
  ctor,       \* NewSplitOutput: "mkdir" | "open" | "spawn" | "done" | "failed"
  rot,        \* rotateDaily: [pc, now, wake, iter]
  of,         \* openFiles activation: [pc, by, date, infoFile, warnFile, err, pre]
  calls,      \* Write and Close calls in progress: [op, p, pc, lvl, post]
  issued,     \* number of Write/Close calls invoked so far
  ret,        \* the error returned by the most recent Write ("none" before any)
  closed,     \* a Close call has returned
  closeRet,   \* the errors returned by the Close calls so far, in order
  rotFailed,  \* the most recent openFiles call of rotateDaily returned an error
  stable,     \* the handle view when the mutex was last released
  midnights,  \* local midnights passed since NewSplitOutput returned
  reopens,    \* openFiles calls made by rotateDaily
  everFailed, \* some openFiles call of rotateDaily has returned an error
  lockOrder,  \* the payloads of the Write calls, in the order they acquired the mutex
  wr,         \* the concurrent writers: writer -> [pc, sent, off]
  sev,        \* the level the concurrent writers write at
  rec,        \* the record the composed core is delivering: [pc, lvl, p, failed]
  under,      \* the last result of a handle's Write(p) in a whole Write: [p, n, err]
  retN        \* the byte count that Write returned

vars == <<clock, cal, skew, dirExists, files, handles, infoOut, warnOut, errorOut,
          mutex, ctor, rot, of, calls, issued, ret, closed, closeRet, rotFailed,
          stable, midnights, reopens, everFailed, lockOrder, wr, sev, rec, under,
          retN>>

\* The variables of the clients of a SplitOutput: the concurrent writers and
\* the composed core.
clientVars == <<wr, sev, rec, under, retN>>

\* ------------------------------------------------------------ the calendar
\* Length of calendar day k in clock units.
DayLen(k) ==
  IF k = 1 /\ cal = "short" THEN DayUnits - 1
  ELSE IF k = 1 /\ cal = "long" THEN DayUnits + 1
  ELSE DayUnits

\* The instant at which calendar day k starts (its local midnight).
RECURSIVE Midnight(_)
Midnight(k) == IF k = 0 THEN 0 ELSE Midnight(k - 1) + DayLen(k - 1)

\* time.Time.Format("2006-01-02") / Year(), Month(), Day(): the calendar day of t.
DayOf(t) == CHOOSE k \in 0 .. (MaxDays + 3) : Midnight(k) <= t /\ t < Midnight(k + 1)

\* The first local midnight strictly after instant t.
NextMidnight(t) == Midnight(DayOf(t) + 1)

\* rotateDaily's next: now.Add(24h), truncated to 00:00 of its calendar day.
RotateNext(now) == Midnight(DayOf(now + DayUnits))

\* ------------------------------------------------------------ the file set
Name(s, d) == <<s, d>>

SlotOf(s) == IF s = "info" THEN infoOut ELSE IF s = "warn" THEN warnOut ELSE errorOut

IsOpen(h) == h # Nil /\ handles[h].open

\* What Write can observe: the three slots and whether each handle is open.
View == [s \in Streams |-> [h |-> SlotOf(s), open |-> IsOpen(SlotOf(s))]]

\* io.Closer.Close on handle h (a nil interface is skipped by closeFiles).
CloseHandle(tbl, h) == IF h = Nil THEN tbl ELSE [tbl EXCEPT ![h].open = FALSE]

\* Mutant of ClosedAll: closeFiles closes nothing.
ClosedNone(tbl) == tbl

\* closeFiles: close the three slots' handles; the slots keep their values.
ClosedAll(tbl) == CloseHandle(CloseHandle(CloseHandle(tbl, infoOut), warnOut), errorOut)

\* The file an open handle appends to.
FileOf(h) == Name(handles[h].stream, handles[h].date)

\* A fresh *os.File: an id no live object has.
NewId(tbl) == CHOOSE i \in 1 .. (Cardinality(DOMAIN tbl) + 1) : i \notin DOMAIN tbl

\* Garbage collection: a closed file object that nothing refers to is gone
\* (and its id may be given to a later object).
Collect(tbl, refs) ==
  LET live == {h \in DOMAIN tbl : tbl[h].open \/ h \in refs}
  IN [h \in live |-> tbl[h]]

NewHandle(s, d) == [stream |-> s, date |-> d, open |-> TRUE]

\* ------------------------------------------------------------------- Init
NoCall == [pc |-> "idle", by |-> "none", date |-> 0, infoFile |-> Nil,
           warnFile |-> Nil, err |-> FALSE, pre |-> <<Nil, Nil, Nil>>]

\* A writer that has not started, and no record in delivery.
NoWrite == [pc |-> "off", sent |-> 0, off |-> 0]

NoRecord == [pc |-> "idle", lvl |-> InfoLevel, p |-> 0, failed |-> FALSE]

\* The state at the call of NewSplitOutput, the log directory holding the
\* files fs.
InitWith(fs) ==
  /\ clock \in 0 .. (DayUnits - 1)
  /\ cal \in {"std", "short", "long"}
  /\ skew = 0
  /\ dirExists \in BOOLEAN
  /\ files = fs
  /\ handles = <<>>
  /\ infoOut = Nil /\ warnOut = Nil /\ errorOut = Nil
  /\ mutex = FALSE
  /\ ctor = "mkdir"
  /\ rot = [pc |-> "off", now |-> 0, wake |-> 0, iter |-> 0]
  /\ of = NoCall
  /\ calls = {}
  /\ issued = 0
  /\ ret = "none"
  /\ closed = FALSE
  /\ closeRet = <<>>
  /\ rotFailed = FALSE
  /\ stable = View
  /\ midnights = 0
  /\ reopens = 0
  /\ everFailed = FALSE
  /\ lockOrder = <<>>
  /\ wr = [w \in Writers |-> NoWrite]
  /\ sev = InfoLevel
  /\ rec = NoRecord
  /\ under = [p |-> 0, n |-> 0, err |-> "none"]
  /\ retN = 0

\* NewSplitOutput is called on a directory without log files.
Init == InitWith(<<>>)

\* ------------------------------------------------------------- the clock
\* The constructor or the rotation goroutine has a statement to run now.
Busy ==
  \/ ctor \in {"mkdir", "open", "spawn"}
  \/ rot.pc \in {"now", "open"}
  \/ rot.pc = "sleep" /\ clock >= rot.wake

Horizon == Midnight(MaxDays)

\* Time passes.  During a running burst the clock advances by one unit, and
\* at most once.  While nothing runs (the goroutine sleeps until a midnight
\* that is still ahead) it advances to the next local midnight: the instants
\* in between differ in nothing the program reads.
Tick ==
  /\ clock < Horizon
  /\ Busy => skew = 0
  /\ clock' = IF Busy THEN clock + 1 ELSE NextMidnight(clock)
  /\ skew' = IF Busy THEN 1 ELSE 0
  /\ midnights' = IF ctor = "done" /\ DayOf(clock') # DayOf(clock)
                  THEN midnights + 1 ELSE midnights
  /\ UNCHANGED clientVars
  /\ UNCHANGED <<lockOrder, closeRet, cal, dirExists, files, handles, infoOut, warnOut, errorOut, mutex,
                 ctor, rot, of, calls, issued, ret, closed, rotFailed, everFailed, stable,
                 reopens>>

\* ------------------------------------------------------------- sync.Mutex
\* Mutant of CanLock: Lock() never waits.
CanLockAlways == TRUE

\* Lock() proceeds only while the mutex is unlocked.
CanLock == mutex = FALSE

\* Mutant of Unlock: the mutex stays locked.
UnlockForgotten == TRUE

\* The deferred s.mutex.Unlock(): the mutex afterwards.
Unlock == FALSE

\* --------------------------------------------------------------- openFiles
CallOpenFiles(t) ==
  [pc |-> "lock", by |-> t, date |-> 0, infoFile |-> Nil, warnFile |-> Nil,
   err |-> FALSE, pre |-> <<infoOut, warnOut, errorOut>>]

\* s.mutex.Lock() at the top of openFiles.
OpenLock ==
  /\ of.pc = "lock"
  /\ CanLock
  /\ mutex' = TRUE
  /\ of' = [of EXCEPT !.pc = "close"]
  /\ UNCHANGED clientVars
  /\ UNCHANGED <<lockOrder, closeRet, clock, cal, skew, dirExists, files, handles, infoOut, warnOut,
                 errorOut, ctor, rot, calls, issued, ret, closed, rotFailed, everFailed,
                 stable, midnights, reopens>>

\* The deferred s.mutex.Unlock() and the return to the caller of openFiles:
\* NewSplitOutput gives up on an error and starts the goroutine otherwise;
\* rotateDaily reports an error on stderr and loops either way.
OpenReturn(err, tbl) ==
  /\ handles' = Collect(tbl, {infoOut', warnOut', errorOut'})
  /\ mutex' = Unlock
  /\ of' = [NoCall EXCEPT !.err = err]
  /\ stable' = View'
  /\ IF of.by = "ctor"
     THEN /\ ctor' = IF err THEN "failed" ELSE "spawn"
          /\ skew' = IF err THEN 0 ELSE skew
          /\ UNCHANGED <<rot, rotFailed, everFailed>>
     ELSE /\ rot' = [rot EXCEPT !.pc = "now"]
          /\ rotFailed' = err
          /\ everFailed' = (everFailed \/ err)
          /\ UNCHANGED <<ctor, skew>>

\* Mutant of OpenCloseFiles: openFiles gives up, returning an error, as soon
\* as closing an old file fails.
OpenCloseFilesAbortOnError ==
  /\ of.pc = "close"
  /\ UNCHANGED <<infoOut, warnOut, errorOut>>
  /\ IF \E s \in Streams : SlotOf(s) # Nil /\ ~handles[SlotOf(s)].open
     THEN OpenReturn(TRUE, handles)
     ELSE /\ handles' = ClosedAll(handles)
          /\ of' = [of EXCEPT !.pc = "info", !.date = DayOf(clock)]
          /\ UNCHANGED <<mutex, ctor, rot, rotFailed, everFailed, stable, skew>>
  /\ UNCHANGED clientVars
  /\ UNCHANGED <<lockOrder, closeRet, clock, cal, dirExists, files, calls, issued, ret,
                 closed, midnights, reopens>>

\* Mutant of OpenCloseFiles: the lock is released once the old files are closed.
OpenCloseFilesUnlocked ==
  /\ of.pc = "close"
  /\ handles' = ClosedAll(handles)
  /\ of' = [of EXCEPT !.pc = "info", !.date = DayOf(clock)]
  /\ mutex' = FALSE
  /\ UNCHANGED clientVars
  /\ UNCHANGED <<lockOrder, closeRet, clock, cal, skew, dirExists, files, infoOut, warnOut, errorOut,
                 ctor, rot, calls, issued, ret, closed, rotFailed, everFailed, stable,
                 midnights, reopens>>

\* s.closeFiles(), then date := time.Now().Format("2006-01-02").
OpenCloseFiles ==
  /\ of.pc = "close"
  /\ handles' = ClosedAll(handles)
  /\ of' = [of EXCEPT !.pc = "info", !.date = DayOf(clock)]
  /\ UNCHANGED clientVars
  /\ UNCHANGED <<lockOrder, closeRet, clock, cal, skew, dirExists, files, infoOut, warnOut, errorOut,
                 mutex, ctor, rot, calls, issued, ret, closed, rotFailed, everFailed, stable,
                 midnights, reopens>>

\* Mutant of DateStamp: the date is read anew for each of the three files.
DateStampPerFile == DayOf(clock)

\* The date in the three file names: the one string `date`, formatted once
\* before the first os.OpenFile.
DateStamp == of.date

\* Mutant of InfoSlotAfterOpen: the slot is assigned only while it is nil.
InfoSlotAssignedOnce(ok, h) == IF ok /\ infoOut = Nil THEN h ELSE infoOut

\* Mutant of InfoSlotAfterOpen: the slot is assigned before the error check,
\* so a failed open stores the nil *os.File.
InfoSlotAssignedUnchecked(ok, h) == IF ok THEN h ELSE Nil

\* The info slot after the first os.OpenFile: assigned only when it succeeded.
InfoSlotAfterOpen(ok, h) == IF ok THEN h ELSE infoOut

\* Mutant of Created: the file is opened with O_TRUNC.
CreatedTruncating(fs, n) ==
  IF n \in DOMAIN fs THEN [fs EXCEPT ![n] = <<>>] ELSE fs @@ (n :> <<>>)

\* os.OpenFile(O_CREATE|O_APPEND|O_WRONLY): the file is created empty when absent
\* and left as it is when present.
Created(fs, n) == IF n \in DOMAIN fs THEN fs ELSE fs @@ (n :> <<>>)

\* Open the INFO file; on an error return it.
OpenInfo ==
  /\ of.pc = "info"
  /\ \E ok \in BOOLEAN :
       LET h == NewId(handles) IN
       /\ infoOut' = InfoSlotAfterOpen(ok, h)
       /\ UNCHANGED <<warnOut, errorOut>>
       /\ IF ok
          THEN /\ files' = Created(files, Name("info", DateStamp))
               /\ handles' = handles @@ (h :> NewHandle("info", DateStamp))
               /\ of' = [of EXCEPT !.pc = "warn", !.infoFile = h]
               /\ UNCHANGED <<mutex, ctor, rot, rotFailed, everFailed, stable, skew>>
          ELSE /\ UNCHANGED files
               /\ OpenReturn(TRUE, handles)
  /\ UNCHANGED clientVars
  /\ UNCHANGED <<lockOrder, closeRet, clock, cal, dirExists, calls, issued, ret, closed, midnights,
                 reopens>>

\* Mutant of WarnFailCleanup: infoFile is not closed on the error path.
WarnFailLeavesInfoOpen(tbl) == tbl

\* The error path of the WARN open: _ = infoFile.Close().
WarnFailCleanup(tbl) == CloseHandle(tbl, of.infoFile)

\* Mutant of ErrorFailCleanup: warnFile is not closed on the error path.
ErrorFailLeavesWarnOpen(tbl) == CloseHandle(tbl, of.infoFile)

\* The error path of the ERROR open: _ = infoFile.Close(); _ = warnFile.Close().
ErrorFailCleanup(tbl) == CloseHandle(CloseHandle(tbl, of.infoFile), of.warnFile)

\* Open the WARN file; on an error close infoFile and return the error.
OpenWarn ==
  /\ of.pc = "warn"
  /\ \E ok \in BOOLEAN :
       LET h == NewId(handles) IN
       /\ UNCHANGED <<infoOut, errorOut>>
       /\ IF ok
          THEN /\ files' = Created(files, Name("warn", DateStamp))
               /\ handles' = handles @@ (h :> NewHandle("warn", DateStamp))
               /\ warnOut' = h
               /\ of' = [of EXCEPT !.pc = "error", !.warnFile = h]
               /\ UNCHANGED <<mutex, ctor, rot, rotFailed, everFailed, stable, skew>>
          ELSE /\ UNCHANGED <<files, warnOut>>
               /\ OpenReturn(TRUE, WarnFailCleanup(handles))
  /\ UNCHANGED clientVars
  /\ UNCHANGED <<lockOrder, closeRet, clock, cal, dirExists, calls, issued, ret, closed, midnights,
                 reopens>>

\* Open the ERROR file; on an error close infoFile and warnFile and return the
\* error; otherwise return nil.
OpenError ==
  /\ of.pc = "error"
  /\ \E ok \in BOOLEAN :
       LET h == NewId(handles) IN
       /\ UNCHANGED <<infoOut, warnOut>>
       /\ IF ok
          THEN /\ files' = Created(files, Name("error", DateStamp))
               /\ errorOut' = h
               /\ OpenReturn(FALSE, handles @@ (h :> NewHandle("error", DateStamp)))
          ELSE /\ UNCHANGED <<files, errorOut>>
               /\ OpenReturn(TRUE, ErrorFailCleanup(handles))
  /\ UNCHANGED clientVars
  /\ UNCHANGED <<lockOrder, closeRet, clock, cal, dirExists, calls, issued, ret, closed, midnights,
                 reopens>>

\* ---------------------------------------------------------- NewSplitOutput
\* os.MkdirAll(directory, 0755), then the call of so.openFiles().
CtorMkdir ==
  /\ ctor = "mkdir"
  /\ \E ok \in BOOLEAN :
       IF ok \/ dirExists
       THEN /\ dirExists' = TRUE
            /\ ctor' = "open"
            /\ of' = CallOpenFiles("ctor")
            /\ skew' = skew
       ELSE /\ ctor' = "failed"
            /\ skew' = 0
            /\ UNCHANGED <<dirExists, of>>
  /\ UNCHANGED clientVars
  /\ UNCHANGED <<lockOrder, closeRet, clock, cal, files, handles, infoOut, warnOut, errorOut, mutex, rot,
                 calls, issued, ret, closed, rotFailed, everFailed, stable, midnights, reopens>>

\* Mutant of CtorSpawn: the constructor returns without starting rotateDaily.
CtorSpawnNoRotation ==
  /\ ctor = "spawn"
  /\ ctor' = "done"
  /\ UNCHANGED clientVars
  /\ UNCHANGED <<lockOrder, closeRet, clock, cal, skew, dirExists, files, handles, infoOut, warnOut,
                 errorOut, mutex, rot, of, calls, issued, ret, closed, rotFailed, everFailed,
                 stable, midnights, reopens>>

\* go so.rotateDaily(); return so, nil
CtorSpawn ==
  /\ ctor = "spawn"
  /\ ctor' = "done"
  /\ rot' = [rot EXCEPT !.pc = "now"]
  /\ UNCHANGED clientVars
  /\ UNCHANGED <<lockOrder, closeRet, clock, cal, skew, dirExists, files, handles, infoOut, warnOut,
                 errorOut, mutex, of, calls, issued, ret, closed, rotFailed, everFailed,
                 stable, midnights, reopens>>

\* ------------------------------------------------------------- rotateDaily
\* now := time.Now(); next := midnight of the day of now+24h;
\* duration := next.Sub(now); time.Sleep(duration) begins.
RotNow ==
  /\ rot.pc = "now"
  /\ rot.iter < MaxRotations
  /\ rot' = [pc |-> "sleep", now |-> clock, wake |-> RotateNext(clock),
             iter |-> rot.iter + 1]
  /\ skew' = 0
  /\ UNCHANGED clientVars
  /\ UNCHANGED <<lockOrder, closeRet, clock, cal, dirExists, files, handles, infoOut, warnOut, errorOut,
                 mutex, ctor, of, calls, issued, ret, closed, rotFailed, everFailed, stable,
                 midnights, reopens>>

\* time.Sleep returns once the duration has elapsed (at once when it is not
\* positive); the loop then calls s.openFiles().
RotWake ==
  /\ rot.pc = "sleep"
  /\ clock >= rot.wake
  /\ rot' = [rot EXCEPT !.pc = "open"]
  /\ of' = CallOpenFiles("rot")
  /\ reopens' = reopens + 1
  /\ UNCHANGED clientVars
  /\ UNCHANGED <<lockOrder, closeRet, clock, cal, skew, dirExists, files, handles, infoOut, warnOut,
                 errorOut, mutex, ctor, calls, issued, ret, closed, rotFailed, everFailed,
                 stable, midnights>>

\* ------------------------------------------------------------------- Write
\* The switch of Write: the stream a level is routed to.
StreamFor(lvl) ==
  CASE lvl = InfoLevel -> "info"
    [] lvl = WarnLevel -> "warn"
    [] lvl \in {ErrorLevel, DPanicLevel, PanicLevel, FatalLevel} -> "error"
    [] OTHER -> "info"

\* (*os.File).Write on handle h: a nil handle panics, a closed one returns
\* os.ErrClosed, an open one appends the payload unless the I/O fails.
WriteErr(h, io) ==
  IF h = Nil THEN "panic"
  ELSE IF ~handles[h].open THEN "closed"
  ELSE IF io THEN "nil" ELSE "io"

\* A caller invokes so.Write(lvl, p); p is the call's serial number.
CallWrite ==
  /\ ctor = "done"
  /\ Cardinality(calls) < NumCallers
  /\ issued < MaxCalls
  /\ issued' = issued + 1
  /\ calls' = calls \cup {[op |-> "write", p |-> issued + 1, pc |-> "lock",
                           lvl |-> 0, post |-> closed]}
  /\ UNCHANGED clientVars
  /\ UNCHANGED <<lockOrder, closeRet, clock, cal, skew, dirExists, files, handles, infoOut, warnOut,
                 errorOut, mutex, ctor, rot, of, ret, closed, rotFailed, everFailed, stable,
                 midnights, reopens>>

\* Mutant of WriteLock: Write goes on without waiting for the mutex.
WriteLockNoWait(k) ==
  /\ k.op = "write" /\ k.pc = "lock"
  /\ mutex' = TRUE
  /\ lockOrder' = Append(lockOrder, k.p)
  /\ \E lvl \in Levels :
       calls' = (calls \ {k}) \cup {[k EXCEPT !.pc = "cs", !.lvl = lvl]}
  /\ UNCHANGED clientVars
  /\ UNCHANGED <<closeRet, clock, cal, skew, dirExists, files, handles, infoOut, warnOut,
                 errorOut, ctor, rot, of, issued, ret, closed, rotFailed, everFailed, stable,
                 midnights, reopens>>

\* s.mutex.Lock() at the top of Write; lvl is the level the call was given.
WriteLock(k) ==
  /\ k.op = "write" /\ k.pc = "lock"
  /\ CanLock
  /\ mutex' = TRUE
  /\ lockOrder' = Append(lockOrder, k.p)
  /\ \E lvl \in Levels :
       calls' = (calls \ {k}) \cup {[k EXCEPT !.pc = "cs", !.lvl = lvl]}
  /\ UNCHANGED clientVars
  /\ UNCHANGED <<closeRet, clock, cal, skew, dirExists, files, handles, infoOut, warnOut,
                 errorOut, ctor, rot, of, issued, ret, closed, rotFailed, everFailed, stable,
                 midnights, reopens>>

\* Mutant of WriteBody: a Write that fails closes the three files.
WriteBodyClosingOnError(k) ==
  /\ k.op = "write" /\ k.pc = "cs"
  /\ \E io \in BOOLEAN :
       LET h == SlotOf(StreamFor(k.lvl))
           err == WriteErr(h, io)
       IN /\ files' = IF err = "nil"
                      THEN [files EXCEPT ![FileOf(h)] = Append(@, k.p)]
                      ELSE files
          /\ ret' = err
          /\ handles' = IF err = "io" THEN ClosedAll(handles) ELSE handles
  /\ mutex' = Unlock
  /\ calls' = calls \ {k}
  /\ UNCHANGED clientVars
  /\ UNCHANGED <<lockOrder, closeRet, clock, cal, skew, dirExists, infoOut, warnOut, errorOut,
                 ctor, rot, of, issued, closed, rotFailed, everFailed, stable, midnights, reopens>>

\* The switch, the one Write on the chosen handle, the deferred Unlock.
WriteBody(k) ==
  /\ k.op = "write" /\ k.pc = "cs"
  /\ \E io \in BOOLEAN :
       LET h == SlotOf(StreamFor(k.lvl))
           err == WriteErr(h, io)
       IN /\ files' = IF err = "nil"
                      THEN [files EXCEPT ![FileOf(h)] = Append(@, k.p)]
                      ELSE files
          /\ ret' = err
  /\ mutex' = Unlock
  /\ calls' = calls \ {k}
  /\ UNCHANGED clientVars
  /\ UNCHANGED <<lockOrder, closeRet, clock, cal, skew, dirExists, handles, infoOut, warnOut, errorOut,
                 ctor, rot, of, issued, closed, rotFailed, everFailed, stable, midnights, reopens>>

\* ------------------------------------------------------------------- Close
\* A caller invokes so.Close().
CallClose ==
  /\ ctor = "done"
  /\ Cardinality(calls) < NumCallers
  /\ issued < MaxCalls
  /\ issued' = issued + 1
  /\ calls' = calls \cup {[op |-> "close", p |-> issued + 1, pc |-> "lock",
                           lvl |-> 0, post |-> closed]}
  /\ UNCHANGED clientVars
  /\ UNCHANGED <<lockOrder, closeRet, clock, cal, skew, dirExists, files, handles, infoOut, warnOut,
                 errorOut, mutex, ctor, rot, of, ret, closed, rotFailed, everFailed, stable,
                 midnights, reopens>>

\* Mutant of CloseLock: Close does not wait for the mutex.
CloseLockNoWait(k) ==
  /\ k.op = "close" /\ k.pc = "lock"
  /\ mutex' = TRUE
  /\ calls' = (calls \ {k}) \cup {[k EXCEPT !.pc = "cs"]}
  /\ UNCHANGED clientVars
  /\ UNCHANGED <<lockOrder, closeRet, clock, cal, skew, dirExists, files, handles, infoOut,
                 warnOut, errorOut, ctor, rot, of, issued, ret, closed, rotFailed, everFailed,
                 stable, midnights, reopens>>

\* s.mutex.Lock() at the top of Close.
CloseLock(k) ==
  /\ k.op = "close" /\ k.pc = "lock"
  /\ CanLock
  /\ mutex' = TRUE
  /\ calls' = (calls \ {k}) \cup {[k EXCEPT !.pc = "cs"]}
  /\ UNCHANGED clientVars
  /\ UNCHANGED <<lockOrder, closeRet, clock, cal, skew, dirExists, files, handles, infoOut, warnOut,
                 errorOut, ctor, rot, of, issued, ret, closed, rotFailed, everFailed, stable,
                 midnights, reopens>>

\* closer.Close() on the handle of a slot, as closeFiles calls it: a nil slot
\* is skipped, a handle already closed answers os.ErrClosed.
CloseErr(h) == IF h = Nil \/ handles[h].open THEN "nil" ELSE "closed"

\* Mutant of CloseResult: Close returns the first error closeFiles met.
CloseResultFirstError(errs) ==
  IF \E i \in DOMAIN errs : errs[i] # "nil" THEN "closed" ELSE "nil"

\* What Close returns: closeFiles drops the three errors (_ = closer.Close())
\* and Close ends in `return nil`.
CloseResult(errs) == "nil"

\* s.closeFiles(), return nil, the deferred Unlock.  Nothing tells rotateDaily.
CloseBody(k) ==
  /\ k.op = "close" /\ k.pc = "cs"
  /\ handles' = ClosedAll(handles)
  /\ mutex' = Unlock
  /\ closed' = TRUE
  /\ closeRet' = Append(closeRet,
                        CloseResult(<<CloseErr(infoOut), CloseErr(warnOut),
                                      CloseErr(errorOut)>>))
  /\ calls' = calls \ {k}
  /\ UNCHANGED clientVars
  /\ UNCHANGED <<lockOrder, clock, cal, skew, dirExists, files, infoOut, warnOut, errorOut,
                 ctor, rot, of, issued, ret, rotFailed, everFailed, midnights, reopens>>
  /\ stable' = View'

\* ------------------------------------------------------ concurrent writers
\* NumCallers goroutines, each calling so.Write(sev, p) WritesEach times with
\* payloads of PayloadLen bytes that are all different.  The handle's Write is
\* shown at the granularity of the write(2) calls it makes, one byte each,
\* and none of them fails.
PayloadOf(w, i) == (w - 1) * WritesEach + i

\* The goroutines are started; they all write at one level, and each one
\* calls so.Write again as soon as its previous call has returned.
StartWriters ==
  /\ ctor = "done"
  /\ \A w \in Writers : wr[w].pc = "off"
  /\ sev' \in Levels
  /\ wr' = [w \in Writers |-> [NoWrite EXCEPT !.pc = "lock"]]
  /\ UNCHANGED <<rec, under, retN>>
  /\ UNCHANGED <<lockOrder, closeRet, clock, cal, skew, dirExists, files, handles, infoOut,
                 warnOut, errorOut, mutex, ctor, rot, of, calls, issued, ret, closed,
                 rotFailed, everFailed, stable, midnights, reopens>>

\* Mutant of WLock: Write does not wait for the mutex.
WLockNoWait(w) ==
  /\ wr[w].pc = "lock"
  /\ mutex' = TRUE
  /\ wr' = [wr EXCEPT ![w].pc = "cs", ![w].off = 0]
  /\ UNCHANGED <<sev, rec, under, retN>>
  /\ UNCHANGED <<lockOrder, closeRet, clock, cal, skew, dirExists, files, handles, infoOut,
                 warnOut, errorOut, ctor, rot, of, calls, issued, ret, closed,
                 rotFailed, everFailed, stable, midnights, reopens>>

\* s.mutex.Lock() at the top of Write.
WLock(w) ==
  /\ wr[w].pc = "lock"
  /\ CanLock
  /\ mutex' = TRUE
  /\ wr' = [wr EXCEPT ![w].pc = "cs", ![w].off = 0]
  /\ UNCHANGED <<sev, rec, under, retN>>
  /\ UNCHANGED <<lockOrder, closeRet, clock, cal, skew, dirExists, files, handles, infoOut,
                 warnOut, errorOut, ctor, rot, of, calls, issued, ret, closed,
                 rotFailed, everFailed, stable, midnights, reopens>>

\* Inside the handle's Write(p): the next byte of p is appended to the file
\* (the handle was opened with O_APPEND).
WByte(w) ==
  LET h == SlotOf(StreamFor(sev)) IN
  /\ wr[w].pc = "cs"
  /\ IsOpen(h)
  /\ wr[w].off < PayloadLen
  /\ files' = [files EXCEPT ![FileOf(h)] = Append(@, PayloadOf(w, wr[w].sent + 1))]
  /\ wr' = [wr EXCEPT ![w].off = @ + 1]
  /\ UNCHANGED <<sev, rec, under, retN>>
  /\ UNCHANGED <<lockOrder, closeRet, clock, cal, skew, dirExists, handles, infoOut, warnOut,
                 errorOut, mutex, ctor, rot, of, calls, issued, ret, closed,
                 rotFailed, everFailed, stable, midnights, reopens>>

\* The handle's Write returns (all of p written, or os.ErrClosed at once on a
\* closed handle), Write returns the same, the deferred Unlock runs.
WReturn(w) ==
  LET h == SlotOf(StreamFor(sev)) IN
  /\ wr[w].pc = "cs"
  /\ wr[w].off = PayloadLen \/ ~IsOpen(h)
  /\ ret' = IF IsOpen(h) THEN "nil" ELSE "closed"
  /\ mutex' = Unlock
  /\ wr' = [wr EXCEPT ![w] = [pc |-> IF @.sent + 1 < WritesEach THEN "lock" ELSE "done",
                               sent |-> @.sent + 1, off |-> 0]]
  /\ UNCHANGED <<sev, rec, under, retN>>
  /\ UNCHANGED <<lockOrder, closeRet, clock, cal, skew, dirExists, files, handles, infoOut,
                 warnOut, errorOut, ctor, rot, of, calls, issued, closed, rotFailed, everFailed,
                 stable, midnights, reopens>>

\* ------------------------------------------- one goroutine, whole Write calls
\* (*os.File).Write(p) on handle h, as the results [n, err] it can have: a nil
\* handle panics, a closed one writes nothing, an open one writes all of p or
\* fails after some of it.
HandleWrite(h) ==
  IF h = Nil THEN {[n |-> 0, err |-> "panic"]}
  ELSE IF ~handles[h].open THEN {[n |-> 0, err |-> "closed"]}
  ELSE {[n |-> PayloadLen, err |-> "nil"]}
         \cup {[n |-> j, err |-> "io"] : j \in 0 .. (PayloadLen - 1)}

\* The first n bytes of payload p.
Bytes(p, n) == [i \in 1 .. n |-> p]

\* Mutant of WriteResult: the handle's error is not passed on.
WriteResultErrorDropped(res) == [res EXCEPT !.err = "nil"]

\* `return s.infoOut.Write(p)`: Write returns what the handle's Write returned.
WriteResult(res) == res

\* One whole call so.Write(lvl, p): Lock, the switch, the handle's Write, the
\* return, the deferred Unlock.
SoWrite(lvl, p) ==
  /\ CanLock
  /\ LET h == SlotOf(StreamFor(lvl)) IN
     \E res \in HandleWrite(h) :
       /\ files' = IF res.n > 0
                   THEN [files EXCEPT ![FileOf(h)] = @ \o Bytes(p, res.n)]
                   ELSE files
       /\ under' = [p |-> p, n |-> res.n, err |-> res.err]
       /\ ret' = WriteResult(res).err
       /\ retN' = WriteResult(res).n

\* A caller that holds the SplitOutput calls so.Write(lvl, p) itself.
DirectWrite ==
  /\ ctor = "done"
  /\ rec.pc = "idle"
  /\ issued < MaxCalls
  /\ issued' = issued + 1
  /\ \E lvl \in Levels : SoWrite(lvl, issued + 1)
  /\ UNCHANGED <<wr, sev, rec>>
  /\ UNCHANGED <<lockOrder, closeRet, clock, cal, skew, dirExists, handles, infoOut, warnOut,
                 errorOut, mutex, ctor, rot, of, calls, closed, rotFailed, everFailed, stable,
                 midnights, reopens>>

\* ---------------------------------------------- the core of GetSplitCore
\* The three level filters.
InfoEnabled(lvl) == lvl = InfoLevel

WarnEnabled(lvl) == lvl = WarnLevel

ErrorEnabled(lvl) == lvl >= ErrorLevel

\* A record of level lvl is logged through the core: the tee asks its three
\* cores in turn.
CoreCheck ==
  /\ ctor = "done"
  /\ rec.pc = "idle"
  /\ issued < MaxCalls
  /\ issued' = issued + 1
  /\ \E lvl \in Levels :
       rec' = [pc |-> "info", lvl |-> lvl, p |-> issued + 1, failed |-> FALSE]
  /\ UNCHANGED <<wr, sev, under, retN>>
  /\ UNCHANGED <<lockOrder, closeRet, clock, cal, skew, dirExists, files, handles, infoOut,
                 warnOut, errorOut, mutex, ctor, rot, of, calls, ret, closed,
                 rotFailed, everFailed, stable, midnights, reopens>>

\* The core of stream c takes its turn: when its filter lets the record's
\* level through it writes the encoded record to its splitOutputWrapper, which
\* calls so.Write(wlvl, p) with the wrapper's own level.
CoreWrite(c, enabled, wlvl, then) ==
  /\ rec.pc = c
  /\ IF enabled
     THEN /\ SoWrite(wlvl, rec.p)
          /\ rec' = [rec EXCEPT !.pc = then, !.failed = @ \/ ret' # "nil"]
     ELSE /\ rec' = [rec EXCEPT !.pc = then]
          /\ UNCHANGED <<files, under, ret, retN>>
  /\ UNCHANGED <<wr, sev>>
  /\ UNCHANGED <<lockOrder, closeRet, clock, cal, skew, dirExists, handles, infoOut, warnOut,
                 errorOut, mutex, ctor, rot, of, calls, issued, closed, rotFailed, everFailed,
                 stable, midnights, reopens>>

InfoCoreWrite == CoreWrite("info", InfoEnabled(rec.lvl), InfoLevel, "warn")

WarnCoreWrite == CoreWrite("warn", WarnEnabled(rec.lvl), WarnLevel, "error")

ErrorCoreWrite == CoreWrite("error", ErrorEnabled(rec.lvl), ErrorLevel, "idle")

\* ----------------------------------------------------------- specification
Next ==
  \/ Tick
  \/ CtorMkdir
  \/ CtorSpawn
  \/ OpenLock
  \/ OpenCloseFiles
  \/ OpenInfo
  \/ OpenWarn
  \/ OpenError
  \/ RotNow
  \/ RotWake
  \/ CallWrite
  \/ \E k \in calls : WriteLock(k)
  \/ \E k \in calls : WriteBody(k)
  \/ CallClose
  \/ \E k \in calls : CloseLock(k)
  \/ \E k \in calls : CloseBody(k)

Spec == Init /\ [][Next]_vars

\* The same program on a calendar without a daylight-saving shift.
InitStd == Init /\ cal = "std"

SpecStd == InitStd /\ [][Next]_vars

\* NewSplitOutput is called with a directory that does not exist yet.
InitNoDir == InitStd /\ ~dirExists

SpecNoDir == InitNoDir /\ [][Next]_vars

\* NewSplitOutput is called at the start of a day, on an existing directory,
\* on a calendar whose next day has 24 hours or, the clocks going back, 25;
\* the SplitOutput is written to and never closed.
InitRecover == Init /\ cal \in {"std", "long"} /\ clock = 0 /\ dirExists

NextRecover ==
  \/ Tick
  \/ CtorMkdir
  \/ CtorSpawn
  \/ OpenLock
  \/ OpenCloseFiles
  \/ OpenInfo
  \/ OpenWarn
  \/ OpenError
  \/ RotNow
  \/ RotWake
  \/ CallWrite
  \/ \E k \in calls : WriteLock(k)
  \/ \E k \in calls : WriteBody(k)

SpecRecover == InitRecover /\ [][NextRecover]_vars

\* The files an earlier SplitOutput left in the directory: it was built with
\* the same prefix on the same day, one payload was written at each stream,
\* and it was closed.
PriorFiles == [n \in {Name(s, DayOf(clock)) : s \in Streams} |-> <<0>>]

\* NewSplitOutput is called again on that directory.
InitPrior == InitWith(PriorFiles) /\ cal = "std" /\ dirExists

SpecPrior == InitPrior /\ [][Next]_vars

\* The writers' workload on a SplitOutput built by NewSplitOutput at the start
\* of a day, within that day: no Close, no failing write, and the rotation
\* goroutine, which has nothing to do before midnight, left out.
InitWriters == InitStd /\ clock = 0

NextWriters ==
  \/ CtorMkdir
  \/ CtorSpawn
  \/ OpenLock
  \/ OpenCloseFiles
  \/ OpenInfo
  \/ OpenWarn
  \/ OpenError
  \/ StartWriters
  \/ \E w \in Writers : WLock(w)
  \/ \E w \in Writers : WByte(w)
  \/ \E w \in Writers : WReturn(w)

SpecWriters == InitWriters /\ [][NextWriters]_vars

\* One goroutine logs through the core of GetSplitCore, or calls Write on
\* the SplitOutput itself, and calls the teardown (Close), within one day.
NextCore ==
  \/ CtorMkdir
  \/ CtorSpawn
  \/ OpenLock
  \/ OpenCloseFiles
  \/ OpenInfo
  \/ OpenWarn
  \/ OpenError
  \/ CoreCheck
  \/ InfoCoreWrite
  \/ WarnCoreWrite
  \/ ErrorCoreWrite
  \/ DirectWrite
  \/ CallClose
  \/ \E k \in calls : CloseLock(k)
  \/ \E k \in calls : CloseBody(k)

SpecCore == InitStd /\ [][NextCore]_vars

\* The same program under a scheduler that does not stop: as long as some
\* goroutine can take a step, one of those that can does.  Callers are free
\* not to call, and nothing is assumed about the clock.
InitFair == InitStd /\ clock = 0 /\ dirExists

\* A step of the constructor, of the rotation goroutine's openFiles, or of a
\* call of Write or Close that has been invoked.
Step ==
  \/ CtorMkdir \/ CtorSpawn
  \/ OpenLock \/ OpenCloseFiles \/ OpenInfo \/ OpenWarn \/ OpenError
  \/ \E k \in calls : WriteLock(k) \/ WriteBody(k) \/ CloseLock(k) \/ CloseBody(k)

Fairness == WF_vars(Step)

SpecFair == InitFair /\ [][Next]_vars /\ Fairness

\* ------------------------------------------------------------------ claims
\* The step in which Write call k runs its body and returns.
WriteReturns(k) == k \in calls /\ k.op = "write" /\ k.pc = "cs" /\ k \notin calls'

Dates == 0 .. (MaxDays + 3)

\* The stream the stated mapping gives a severity: below warn to info, warn to
\* warn, error and everything above it to error.
StatedStream(lvl) ==
  IF lvl < WarnLevel THEN "info" ELSE IF lvl = WarnLevel THEN "warn" ELSE "error"

\* Call k's payload was appended to the file n and nothing else changed.
AppendedTo(k, n) ==
  n \in DOMAIN files /\ files' = [files EXCEPT ![n] = Append(@, k.p)]

\* C1: every successful Write(s, p), for every value s of the level type,
\* appends p to exactly one file, the one of the stream stated for s (info
\* below warn, warn at warn, error at error and above); the other files
\* receive nothing.
C1_RoutesEverySeverity ==
  [][\A k \in calls :
       (WriteReturns(k) /\ ret' = "nil")
         => \E d \in Dates : AppendedTo(k, Name(StatedStream(k.lvl), d))]_vars

\* C2: a Write invoked after a Close has returned never succeeds, never
\* appends anything and never panics: it returns an error.
C2_WriteAfterCloseFails ==
  [][\A k \in calls :
       (WriteReturns(k) /\ k.post)
         => (ret' \in {"closed", "io"} /\ files' = files)]_vars

\* C3: once a Close has returned, rotateDaily never calls openFiles again.
C3_NoReopenAfterClose ==
  [][closed => ~(rot.pc = "sleep" /\ rot'.pc = "open")]_vars

\* C4: after a failed rotation and until the next successful one (no Close
\* involved), every Write still finds its handle open: it is not refused for
\* a closed file, and what it appends goes to a file of an earlier day.
C4_ServesAfterFailedRotation ==
  [][\A k \in calls :
       (WriteReturns(k) /\ rotFailed /\ ~closed)
         => /\ ret' \in {"nil", "io"}
            /\ ret' = "nil"
                 => \E n \in DOMAIN files : n[2] < DayOf(clock) /\ AppendedTo(k, n)]_vars

\* C5: when openFiles returns an error, the three slots hold the same three
\* handles as when it was called.
C5_FailedOpenKeepsSlots ==
  [][(of.pc # "idle" /\ of'.pc = "idle" /\ of'.err)
       => <<infoOut', warnOut', errorOut'>> = of.pre]_vars

\* C6: whenever a Write holds the lock, none of the three slots is nil, and no
\* Write has ended in a nil dereference.
C6_NoNilHandleInWrite ==
  /\ \A k \in calls :
       (k.op = "write" /\ k.pc = "cs")
         => (infoOut # Nil /\ warnOut # Nil /\ errorOut # Nil)
  /\ ret # "panic"

\* A Write holds the lock after a rotation that failed.
C6_Witness ==
  \E k \in calls : k.op = "write" /\ k.pc = "cs" /\ rotFailed /\ reopens > 0

\* Operations inside their handle-accessing section: Write and Close bodies,
\* and openFiles between its Lock and its return.
InSection ==
  Cardinality({k \in calls : k.pc = "cs"})
    + (IF of.pc \in {"close", "info", "warn", "error"} THEN 1 ELSE 0)

\* C7: at most one of Write, openFiles and Close is inside its
\* handle-accessing section at any instant.
C7_MutualExclusion == InSection <= 1

\* A Write is inside its section while openFiles and a Close both wait for
\* the lock.
C7_Witness ==
  /\ of.pc = "lock" /\ of.by = "rot"
  /\ \E k \in calls : k.op = "write" /\ k.pc = "cs"
  /\ \E k \in calls : k.op = "close" /\ k.pc = "lock"

\* C8: a Write holding the lock sees the three slots and their handles exactly
\* as the last operation that released the lock left them: wholly as before a
\* concurrent openFiles or wholly as after it, never in between.
C8_ReopenAtomicForWriters ==
  \A k \in calls : (k.op = "write" /\ k.pc = "cs") => View = stable

\* A Write holds the lock right after a successful rotation: all three slots
\* hold open handles of the new day.
C8_Witness ==
  /\ reopens > 0 /\ ~rotFailed /\ of.pc = "idle"
  /\ \E k \in calls : k.op = "write" /\ k.pc = "cs"
  /\ \A s \in Streams : IsOpen(SlotOf(s)) /\ handles[SlotOf(s)].date = 1

\* C9: with 24-hour days only and no Close, whenever the rotation goroutine is
\* asleep before its wake instant it has called openFiles once for each local
\* midnight passed since NewSplitOutput returned.
C9_OneReopenPerMidnight ==
  (cal = "std" /\ ~closed /\ ctor = "done" /\ rot.pc = "sleep" /\ clock < rot.wake)
    => reopens = midnights

\* C10: on every pass of the rotation loop the computed sleep is strictly
\* positive and ends at the first local midnight after now.
C10_SleepEndsAtNextMidnight ==
  rot.pc = "sleep" => (rot.wake - rot.now > 0 /\ rot.wake = NextMidnight(rot.now))

\* C11: when openFiles fails inside the rotation loop the goroutine goes back
\* to sleep (the loop goes on), the sleep it starts is not over at once, and
\* it ends at the first local midnight after the failure, whatever the number
\* of failures before.
C11_FailedRotationWaitsForMidnight ==
  [][/\ (rot.pc = "open" /\ of.pc # "idle" /\ of'.pc = "idle" /\ of'.err)
          => rot'.pc = "now"
     /\ (rotFailed /\ rot.pc = "now" /\ rot'.pc = "sleep")
          => (rot'.wake > clock /\ rot'.wake = NextMidnight(clock))]_vars

\* C12: a construction that could not create the directory or failed in one
\* of its three opens has failed as a whole: it returned an error, no handle
\* it opened is still open, the rotation goroutine was never started, and no
\* SplitOutput was handed out (nothing can call Write or Close).
C12_FailedConstructionLeavesNothing ==
  /\ (~dirExists /\ ctor # "mkdir") => ctor = "failed"
  /\ (of.pc = "idle" /\ of.err /\ reopens = 0) => ctor = "failed"
  /\ ctor = "failed"
       => /\ \A h \in DOMAIN handles : ~handles[h].open
          /\ rot.pc = "off"
          /\ calls = {} /\ issued = 0
          /\ mutex = FALSE

\* The construction failed in its third open, after the info and warn files
\* had been opened.
C12_Witness == ctor = "failed" /\ infoOut # Nil /\ warnOut # Nil /\ errorOut = Nil

\* C13: every Close call returns no error, the first one on a live
\* SplitOutput and every later one alike, whatever the state of the three
\* handles when it runs.
C13_CloseAlwaysReturnsNil ==
  \A i \in DOMAIN closeRet : closeRet[i] = "nil"

\* Two Close calls have returned: the second one found the handles closed.
C13_Witness == Len(closeRet) >= 2 /\ ~IsOpen(infoOut) /\ reopens = 0

\* The file the writers' level is routed to.
TargetFile == FileOf(SlotOf(StreamFor(sev)))

Count(f, p) == Cardinality({i \in DOMAIN f : f[i] = p})

\* The bytes of each payload lie next to each other in f.
Contiguous(f) ==
  \A i, j \in DOMAIN f : (i < j /\ f[i] = f[j]) => f[i + 1] = f[i]

AllSent == \A w \in Writers : wr[w].pc = "done" /\ wr[w].sent = WritesEach

\* C14: with NumCallers writers each writing WritesEach different payloads
\* at one level (no Close, no failing write), at every instant the file of
\* that level holds every payload whose Write has returned, whole, once, its
\* bytes next to each other, the other files hold nothing, and when all
\* writes have returned it holds exactly the NumCallers * WritesEach payloads.
C14_ConcurrentWritesAllWhole ==
  (\A w \in Writers : wr[w].pc # "off")
    => /\ \A n \in DOMAIN files : Contiguous(files[n])
       /\ \A n \in DOMAIN files : n # TargetFile => files[n] = <<>>
       /\ \A w \in Writers : \A i \in 1 .. WritesEach :
            Count(files[TargetFile], PayloadOf(w, i))
              = IF i <= wr[w].sent THEN PayloadLen
                ELSE IF i = wr[w].sent + 1 /\ wr[w].pc = "cs" THEN wr[w].off
                ELSE 0
       /\ AllSent => Len(files[TargetFile]) = NumCallers * WritesEach * PayloadLen

\* All writes have returned, and the writers took turns: the file starts
\* with a payload of writer 2, followed by one of writer 1.
C14_Witness ==
  /\ AllSent
  /\ files[TargetFile][1] = PayloadOf(2, 1)
  /\ files[TargetFile][PayloadLen + 1] = PayloadOf(1, 1)

\* C15: no step ever erases or shortens a file: every file that exists keeps
\* its content as a prefix of what it holds afterwards, so what is written
\* after a new construction (or a reopen) on a file that was there before
\* comes after the file's earlier content.
C15_OpenNeverTruncates ==
  [][\A n \in DOMAIN files :
       /\ n \in DOMAIN files'
       /\ Len(files'[n]) >= Len(files[n])
       /\ SubSeq(files'[n], 1, Len(files[n])) = files[n]]_vars

\* A SplitOutput built on the directory an earlier one had written to has
\* appended a payload after the earlier one's payload.
C15_Witness ==
  /\ ctor = "done"
  /\ \E n \in DOMAIN files :
       Len(files[n]) = 2 /\ files[n][1] = 0 /\ files[n][2] > 0

\* The last openFiles call was one of rotateDaily, it succeeded, and no other
\* has begun.
AfterReopen == reopens > 0 /\ ~rotFailed /\ of.pc = "idle"

\* C16: after a successful reopen, with D the date it stamped: the three
\* slots hold handles of the three files of date D, which exist; every handle
\* of an earlier date is closed; the files of earlier dates keep their
\* content; and a Write that succeeds appends to a file of date D.
C16_ReopenSwitchesToNewDate ==
  [][AfterReopen =>
       LET D == handles[infoOut].date IN
       /\ \A s \in Streams :
            Name(s, D) \in DOMAIN files /\ FileOf(SlotOf(s)) = Name(s, D)
       /\ \A h \in DOMAIN handles : handles[h].date < D => ~handles[h].open
       /\ \A n \in DOMAIN files : n[2] < D => files'[n] = files[n]
       /\ \A k \in calls :
            (WriteReturns(k) /\ ret' = "nil")
              => \E s \in Streams : AppendedTo(k, Name(s, D))]_vars

\* After a successful reopen on day 1 a file of day 0 and a file of day 1
\* both hold a payload.
C16_Witness ==
  /\ AfterReopen /\ handles[infoOut].date = 1
  /\ \E s, t \in Streams :
       /\ Name(s, 0) \in DOMAIN files /\ Len(files[Name(s, 0)]) > 0
       /\ Len(files[Name(t, 1)]) > 0

\* C17: while a Write holds the lock no handle is closed, by a concurrent
\* Close or otherwise; and a Write that found its handle open when it took
\* the lock is not refused for a closed file: unless the I/O itself fails it
\* appends its payload to that handle's file and returns success.
C17_CloseWaitsForWriteInFlight ==
  [][\A k \in calls :
       (k.op = "write" /\ k.pc = "cs")
         => /\ \A h \in DOMAIN handles :
                 handles[h].open => (h \in DOMAIN handles' /\ handles'[h].open)
            /\ (WriteReturns(k) /\ stable[StreamFor(k.lvl)].open)
                 => /\ ret' \in {"nil", "io"}
                    /\ ret' = "nil"
                         => AppendedTo(k, FileOf(SlotOf(StreamFor(k.lvl))))]_vars

\* A Write holds the lock, its handle open, while a Close that was invoked
\* on the live SplitOutput waits for the lock.
C17_Witness ==
  /\ \E k \in calls :
       k.op = "write" /\ k.pc = "cs" /\ IsOpen(SlotOf(StreamFor(k.lvl)))
  /\ \E c \in calls : c.op = "close" /\ c.pc = "lock" /\ ~c.post
  /\ ~closed /\ of.pc = "idle"

\* The files that hold bytes of payload p.
FilesWith(p) == {n \in DOMAIN files : Count(files[n], p) > 0}

\* C18: a record that the core of GetSplitCore has delivered without an I/O
\* error, whatever its level, is in exactly one file, a file of the stream
\* stated for its level (info below warn, warn at warn, error at error and
\* above): it is neither dropped nor written twice.
C18_CoreDeliversEveryRecordOnce ==
  (rec.pc = "idle" /\ rec.p > 0 /\ ~rec.failed)
    => \E d \in Dates : FilesWith(rec.p) = {Name(StatedStream(rec.lvl), d)}

\* C19: a whole Write call returns the count and the error of the one
\* handle Write it made: success is returned only with the full payload
\* length, the bytes of the payload are in at most one file, and they are as
\* many as the count returned.
C19_WriteReturnsHandleResult ==
  /\ ret = under.err /\ retN = under.n
  /\ ret = "nil" => retN = PayloadLen
  /\ under.p > 0
       => /\ Cardinality(FilesWith(under.p)) <= 1
          /\ retN > 0 => FilesWith(under.p) # {}
          /\ \A n \in FilesWith(under.p) : Count(files[n], under.p) = retN

\* A Write whose handle wrote part of the payload and then failed returned
\* that count with the error.
C19_Witness == under.p > 0 /\ ret = "io" /\ retN > 0 /\ retN < PayloadLen

\* C20: under a fair scheduler every Write that is invoked returns, whatever
\* the other writers, the Close calls and the rotation goroutine do.
C20_EveryWriteReturns ==
  \A p \in 1 .. MaxCalls :
    (\E k \in calls : k.op = "write" /\ k.p = p) ~> ~(\E k \in calls : k.p = p)

\* A Write waits in Lock() while the openFiles call of the rotation holds the
\* mutex and a Close waits as well.
C20_Witness ==
  /\ mutex /\ of.by = "rot" /\ of.pc \in {"close", "info", "warn", "error"}
  /\ \E k \in calls : k.op = "write" /\ k.pc = "lock"
  /\ \E c \in calls : c.op = "close" /\ c.pc = "lock"


\* C21: when NewSplitOutput succeeds on a directory that did not exist, then
\* at its return the directory exists, the three files stamped with the date
\* of the construction exist and are empty, all three slots hold open handles
\* on them, and rotateDaily has been started: it runs exactly when the
\* constructor has returned successfully, and has not yet gone round its loop.
Returning == ctor = "spawn" \/ (ctor = "done" /\ issued = 0 /\ rot.pc = "now" /\ rot.iter = 0)

C21_ConstructionCreatesEverything ==
  /\ Returning =>
       /\ dirExists
       /\ \E d \in {DayOf(clock), DayOf(clock - skew)} :
            \A s \in Streams :
              /\ IsOpen(SlotOf(s))
              /\ FileOf(SlotOf(s)) = Name(s, d)
              /\ Name(s, d) \in DOMAIN files /\ files[Name(s, d)] = <<>>
       /\ Cardinality({h \in DOMAIN handles : handles[h].open}) = 3
  /\ (rot.pc # "off") <=> (ctor = "done")
  /\ (ctor = "spawn") => (rot.pc = "off" /\ rot.iter = 0)

C21_Witness ==
  /\ ctor = "done" /\ issued = 0 /\ rot.pc = "now" /\ rot.iter = 0
  /\ dirExists
  /\ \A s \in Streams : IsOpen(SlotOf(s)) /\ files[FileOf(SlotOf(s))] = <<>>

\* C22: once a Close has returned, at every later instant none of the three
\* slots refers to an open handle.
C22_NothingOpenAfterClose ==
  closed => \A s \in Streams : ~IsOpen(SlotOf(s))

\* The place of payload p in the order of lock acquisition (0 when absent).
Place(p) ==
  IF \E i \in 1 .. Len(lockOrder) : lockOrder[i] = p
  THEN CHOOSE i \in 1 .. Len(lockOrder) : lockOrder[i] = p
  ELSE 0

\* C23: in every file the payloads stand in the order in which their Write
\* calls acquired the mutex: each appended payload belongs to a call that
\* held the lock, and of two payloads in one file the earlier one's call
\* locked first.  (The order of invocation is not kept: see the witness.)
C23_FileOrderIsLockOrder ==
  \A f \in DOMAIN files :
    \A j \in 1 .. Len(files[f]) :
      /\ Place(files[f][j]) > 0
      /\ \A i \in 1 .. (j - 1) : Place(files[f][i]) < Place(files[f][j])

\* Two calls were invoked in the order 1, 2, acquired the lock in the order
\* 2, 1, and stand in one file in the order 2, 1.
C23_Witness ==
  /\ lockOrder = <<2, 1>>
  /\ \E f \in DOMAIN files : files[f] = <<2, 1>>

\* C24: a Write, whether it succeeds or fails, changes at most the file of
\* the stream its level is routed to: the files of the other two streams, the
\* three slots, every handle, and the directory stay as they were (so a
\* failed I/O on one stream leaves the other streams' handles usable).
C24_WriteTouchesOnlyItsStream ==
  [][\A k \in calls :
       WriteReturns(k) =>
         /\ DOMAIN files' = DOMAIN files
         /\ \A n \in DOMAIN files :
              n[1] # StreamFor(k.lvl) => files'[n] = files[n]
         /\ <<infoOut, warnOut, errorOut>>' = <<infoOut, warnOut, errorOut>>
         /\ handles' = handles
         /\ dirExists' = dirExists]_vars

\* Before any rotation or Close, the first Write to acquire the lock failed
\* (on I/O: its payload is in no file) and the second one succeeded.
C24_Witness ==
  /\ Len(lockOrder) = 2 /\ calls = {}
  /\ ~closed /\ reopens = 0
  /\ FilesWith(lockOrder[1]) = {}
  /\ FilesWith(lockOrder[2]) # {}

\* The slot of stream s after the step.
SlotAfter(s) == IF s = "info" THEN infoOut' ELSE IF s = "warn" THEN warnOut' ELSE errorOut'

\* C25: closing the old files in openFiles is best-effort.  Whether or not
\* closing a handle fails, the closeFiles step closes every slot's handle
\* and openFiles goes on to the first os.OpenFile; and openFiles returns an
\* error only from an os.OpenFile that failed (the slot of that file is not
\* assigned), never because of a close.
C25_CloseInReopenIsBestEffort ==
  [][/\ (of.pc = "close" /\ of' # of)
        => /\ of'.pc = "info"
           /\ \A s \in Streams : SlotOf(s) # Nil => ~handles'[SlotOf(s)].open
     /\ (of.pc # "idle" /\ of'.pc = "idle" /\ of'.err)
        => (of.pc \in Streams /\ SlotAfter(of.pc) = SlotOf(of.pc))
     /\ (of.pc = "error" /\ of'.pc = "idle" /\ errorOut' # errorOut)
        => (~of'.err /\ \A s \in Streams : handles'[SlotAfter(s)].open)]_vars

\* A reopen whose closeFiles failed on the three handles that a Close had
\* closed before has returned nil, with three new files open in the slots.
C25_Witness ==
  /\ closed /\ reopens = 1
  /\ of.pc = "idle" /\ ~of.err /\ ~rotFailed
  /\ \A s \in Streams : IsOpen(SlotOf(s))

\* C26: every payload that a successful Write appends goes to a file whose
\* day stamp is the local date at the moment of that Write.
C26_StampIsDateOfWrite ==
  [][\A k \in calls :
       (WriteReturns(k) /\ ret' = "nil")
         => \E s \in Streams : AppendedTo(k, Name(s, DayOf(clock)))]_vars

\* The step runs closeFiles: in the body of a Close call, or in openFiles.
RunsCloseFiles ==
  \/ \E k \in calls : k.op = "close" /\ k.pc = "cs" /\ k \notin calls'
  \/ of.pc = "close" /\ of' # of

\* C27: closeFiles, whether called by Close or by openFiles, never calls
\* Close on a handle that is closed already.
C27_NoDoubleClose ==
  [][RunsCloseFiles => \A s \in Streams : CloseErr(SlotOf(s)) = "nil"]_vars

\* C28: whenever the mutex is free and the three slots hold open handles,
\* the three handles are on files of one and the same date (each on the file
\* of its own stream).
C28_OpenHandlesShareOneDate ==
  (~mutex /\ \A s \in Streams : IsOpen(SlotOf(s)))
    => \A s, t \in Streams :
         /\ handles[SlotOf(s)].stream = s
         /\ handles[SlotOf(s)].date = handles[SlotOf(t)].date

\* After a rotation: the mutex is free and the three open handles are on
\* the files of the new day.
C28_Witness ==
  /\ ~mutex /\ DayOf(clock) > 0
  /\ \A s \in Streams : IsOpen(SlotOf(s)) /\ handles[SlotOf(s)].date = DayOf(clock)

\* The files this SplitOutput has opened and not closed.
OpenHandles == {h \in DOMAIN handles : handles[h].open}

\* C29: the SplitOutput never has more than three files open, and whenever
\* the mutex is free it has either none or three open (and the three are
\* then those in the slots).
C29_NoneOrThreeOpen ==
  /\ Cardinality(OpenHandles) <= 3
  /\ ~mutex => \/ OpenHandles = {}
               \/ /\ Cardinality(OpenHandles) = 3
                  /\ OpenHandles = {SlotOf(s) : s \in Streams}

\* A rotation has failed at its second or third os.OpenFile, no Close was
\* called, and with the mutex free again no file is open.
C29_Witness ==
  /\ ~mutex /\ rotFailed /\ ~closed /\ of.pc = "idle"
  /\ infoOut # Nil /\ handles[infoOut].date > 0
  /\ OpenHandles = {}

\* A rotation has failed, the most recent one has succeeded and has not been
\* followed by the next (which at most waits for the mutex), and no Close
\* has returned.
Recovered ==
  /\ everFailed /\ ~rotFailed /\ ~closed
  /\ of.pc \in {"idle", "lock"}

\* C30: after a failed rotation and a later successful one, without Close:
\* the three slots hold open handles on the three files of the date D that
\* the successful rotation stamped, and every Write finds its handle open
\* (it is refused only if the I/O itself fails) and, when it succeeds,
\* appends its payload to the file of its stream and of date D.
C30_RecoversFromFailedRotation ==
  [][Recovered =>
       LET D == handles[infoOut].date IN
       /\ \A s \in Streams : IsOpen(SlotOf(s)) /\ FileOf(SlotOf(s)) = Name(s, D)
       /\ \A k \in calls :
            WriteReturns(k)
              => /\ ret' \in {"nil", "io"}
                 /\ ret' = "nil" => AppendedTo(k, Name(StreamFor(k.lvl), D))]_vars

\* After the recovery a Write has succeeded: its payload is in a file of the
\* date of the successful rotation.
C30_Witness ==
  /\ Recovered /\ ret = "nil"
  /\ \E s \in Streams : Len(files[Name(s, handles[infoOut].date)]) > 0
====
